---- MODULE Spec2Model ----
(***************************************************************************)
(* Model of the consent-gated ITR filing demo: the PrivacyService consent  *)
(* reconciliation (hasRequiredConsents, getMissingRequiredConsents), the   *)
(* ConsentController consent state, the ITR gate, the OIDC session gate    *)
(* and the three-step registration wizard.                                 *)
(*                                                                         *)
(* JavaScript strings that the code inspects (labels, attribute ids) are   *)
(* sequences of one-character strings, so that toLowerCase, trim and       *)
(* includes are computed rather than assumed.  Purpose ids are only ever   *)
(* compared for equality and stay TLA+ strings.                            *)
(***************************************************************************)
EXTENDS Integers, Sequences, FiniteSets, TLC

(***************************************************************************)
(* Bounds                                                                  *)
(***************************************************************************)
\* longest consent list drawn as an input of the pure functions
MaxLen == 2

(***************************************************************************)
(* JavaScript string primitives                                            *)
(***************************************************************************)
LowerOf ==
    ("A" :> "a") @@ ("B" :> "b") @@ ("C" :> "c") @@ ("D" :> "d") @@
    ("E" :> "e") @@ ("F" :> "f") @@ ("G" :> "g") @@ ("H" :> "h") @@
    ("I" :> "i") @@ ("J" :> "j") @@ ("K" :> "k") @@ ("L" :> "l") @@
    ("M" :> "m") @@ ("N" :> "n") @@ ("O" :> "o") @@ ("P" :> "p") @@
    ("Q" :> "q") @@ ("R" :> "r") @@ ("S" :> "s") @@ ("T" :> "t") @@
    ("U" :> "u") @@ ("V" :> "v") @@ ("W" :> "w") @@ ("X" :> "x") @@
    ("Y" :> "y") @@ ("Z" :> "z")

\* String.prototype.toLowerCase
toLowerCase(s) ==
    [i \in 1..Len(s) |-> IF s[i] \in DOMAIN LowerOf THEN LowerOf[s[i]] ELSE s[i]]

WhiteSpace == {" ", "\t"}

RECURSIVE trimStart(_)
trimStart(s) ==
    IF s # <<>> /\ Head(s) \in WhiteSpace THEN trimStart(Tail(s)) ELSE s

RECURSIVE trimEnd(_)
trimEnd(s) ==
    IF s # <<>> /\ s[Len(s)] \in WhiteSpace
    THEN trimEnd(SubSeq(s, 1, Len(s) - 1))
    ELSE s

\* String.prototype.trim
trim(s) == trimEnd(trimStart(s))

\* String.prototype.includes: needle occurs in hay (the empty needle always)
includes(hay, needle) ==
    \E i \in 0..(Len(hay) - Len(needle)) :
        SubSeq(hay, i + 1, i + Len(needle)) = needle

\* Array.prototype.find: index of the first element satisfying P, 0 if none
find(arr, P(_)) ==
    IF \E i \in 1..Len(arr) : P(arr[i])
    THEN CHOOSE i \in 1..Len(arr) :
            P(arr[i]) /\ \A j \in 1..(i - 1) : ~P(arr[j])
    ELSE 0

RECURSIVE flatten(_)
flatten(ss) == IF ss = <<>> THEN <<>> ELSE Head(ss) \o flatten(Tail(ss))

\* Array.prototype.filter
filter(arr, P(_)) == flatten([i \in 1..Len(arr) |-> IF P(arr[i]) THEN <<arr[i]>> ELSE <<>>])

\* a JavaScript value that is undefined, null or '' (all falsy)
None == <<>>

\* a || b on strings
Or(a, b) == IF a # None THEN a ELSE b

(***************************************************************************)
(* Attribute ids, labels and keywords as character sequences               *)
(***************************************************************************)
ID_name          == <<"n","a","m","e">>
ID_email         == <<"e","m","a","i","l">>
ID_mobile_number == <<"m","o","b","i","l","e","_","n","u","m","b","e","r">>
ID_aadhar_id     == <<"a","a","d","h","a","r","_","i","d">>
ID_pan_id        == <<"p","a","n","_","i","d">>

L_FullName      == <<"F","u","l","l"," ","N","a","m","e">>
L_EmailAddress  == <<"E","m","a","i","l"," ","A","d","d","r","e","s","s">>
L_MobileNumber  == <<"M","o","b","i","l","e"," ","N","u","m","b","e","r">>
L_AadhaarNumber == <<"A","a","d","h","a","a","r"," ","N","u","m","b","e","r">>
L_PANNumber     == <<"P","A","N"," ","N","u","m","b","e","r">>

K_email   == <<"e","m","a","i","l">>
K_mobile  == <<"m","o","b","i","l","e">>
K_name    == <<"n","a","m","e">>
K_pan     == <<"p","a","n">>
K_aadhaar == <<"a","a","d","h","a","a","r">>
K_aadhar  == <<"a","a","d","h","a","r">>

MARKETING == "MARKETING_COMMUNICATIONS"
ITR       == "ITR_FILING"

\* the object getConsentMetadata returns null for an unknown purpose
NoMeta == [isNull |-> TRUE, attributes |-> <<>>]

\* PrivacyService.getConsentMetadata: the fixed purpose metadata
getConsentMetadata(purposeId) ==
    IF purposeId = MARKETING THEN
        [isNull |-> FALSE,
         attributes |-> << [id |-> ID_name,          label |-> L_FullName],
                           [id |-> ID_email,         label |-> L_EmailAddress],
                           [id |-> ID_mobile_number, label |-> L_MobileNumber] >>]
    ELSE IF purposeId = ITR THEN
        [isNull |-> FALSE,
         attributes |-> << [id |-> ID_name,          label |-> L_FullName],
                           [id |-> ID_email,         label |-> L_EmailAddress],
                           [id |-> ID_mobile_number, label |-> L_MobileNumber],
                           [id |-> ID_aadhar_id,     label |-> L_AadhaarNumber],
                           [id |-> ID_pan_id,        label |-> L_PANNumber] >>]
    ELSE NoMeta

\* meta.attributes.map(a => a.id)
metaIdsOf(meta) == [i \in 1..Len(meta.attributes) |-> meta.attributes[i].id]

\* the set of logical ids of a purpose
LogicalIds(purposeId) ==
    LET m == getConsentMetadata(purposeId)
    IN  {m.attributes[i].id : i \in 1..Len(m.attributes)}

(***************************************************************************)
(* Attribute resolution                                                    *)
(***************************************************************************)
\* metaIds.find(P) || dflt
findIdOr(metaIds, P(_), dflt) ==
    LET i == find(metaIds, P) IN IF i # 0 THEN metaIds[i] ELSE dflt

\* matchByLabel with a label that matches no rule resolved to the first
\* attribute of the purpose instead of being left unresolved
matchByLabelDefaulting(meta, metaIds, attrName) ==
    LET lowerName == trim(toLowerCase(attrName))
        exact   == find(meta.attributes,
                        LAMBDA a : a.label # None /\ toLowerCase(a.label) = lowerName)
        partial == find(meta.attributes,
                        LAMBDA a : a.label # None /\
                                   (includes(toLowerCase(a.label), lowerName) \/
                                    includes(lowerName, toLowerCase(a.label))))
    IN  IF exact # 0 THEN meta.attributes[exact].id
        ELSE IF partial # 0 THEN meta.attributes[partial].id
        ELSE IF includes(lowerName, K_email)
             THEN findIdOr(metaIds, LAMBDA id : includes(id, K_email), ID_email)
        ELSE IF includes(lowerName, K_mobile)
             THEN findIdOr(metaIds, LAMBDA id : includes(id, K_mobile), ID_mobile_number)
        ELSE IF includes(lowerName, K_name)
             THEN findIdOr(metaIds, LAMBDA id : id = ID_name,
                           findIdOr(metaIds, LAMBDA id : includes(id, K_name), ID_name))
        ELSE IF includes(lowerName, K_pan)
             THEN findIdOr(metaIds, LAMBDA id : includes(id, K_pan), ID_pan_id)
        ELSE IF includes(lowerName, K_aadhaar) \/ includes(lowerName, K_aadhar)
             THEN findIdOr(metaIds,
                           LAMBDA id : includes(id, K_aadhar) \/ includes(id, K_aadhaar),
                           ID_aadhar_id)
        ELSE meta.attributes[1].id

\* matchByLabel with the keyword name tried before email and mobile
matchByLabelNameFirst(meta, metaIds, attrName) ==
    LET lowerName == trim(toLowerCase(attrName))
        exact   == find(meta.attributes,
                        LAMBDA a : a.label # None /\ toLowerCase(a.label) = lowerName)
        partial == find(meta.attributes,
                        LAMBDA a : a.label # None /\
                                   (includes(toLowerCase(a.label), lowerName) \/
                                    includes(lowerName, toLowerCase(a.label))))
    IN  IF exact # 0 THEN meta.attributes[exact].id
        ELSE IF partial # 0 THEN meta.attributes[partial].id
        ELSE IF includes(lowerName, K_name)
             THEN findIdOr(metaIds, LAMBDA id : id = ID_name,
                           findIdOr(metaIds, LAMBDA id : includes(id, K_name), ID_name))
        ELSE IF includes(lowerName, K_email)
             THEN findIdOr(metaIds, LAMBDA id : includes(id, K_email), ID_email)
        ELSE IF includes(lowerName, K_mobile)
             THEN findIdOr(metaIds, LAMBDA id : includes(id, K_mobile), ID_mobile_number)
        ELSE IF includes(lowerName, K_pan)
             THEN findIdOr(metaIds, LAMBDA id : includes(id, K_pan), ID_pan_id)
        ELSE IF includes(lowerName, K_aadhaar) \/ includes(lowerName, K_aadhar)
             THEN findIdOr(metaIds,
                           LAMBDA id : includes(id, K_aadhar) \/ includes(id, K_aadhaar),
                           ID_aadhar_id)
        ELSE None

\* The label rules shared verbatim by the three resolvers: exact label,
\* substring either way, then the keywords email, mobile, name, pan, aadhaar.
\* None when no rule matches.
matchByLabel(meta, metaIds, attrName) ==
    LET lowerName == trim(toLowerCase(attrName))
        exact   == find(meta.attributes,
                        LAMBDA a : a.label # None /\ toLowerCase(a.label) = lowerName)
        partial == find(meta.attributes,
                        LAMBDA a : a.label # None /\
                                   (includes(toLowerCase(a.label), lowerName) \/
                                    includes(lowerName, toLowerCase(a.label))))
    IN  IF exact # 0 THEN meta.attributes[exact].id
        ELSE IF partial # 0 THEN meta.attributes[partial].id
        ELSE IF includes(lowerName, K_email)
             THEN findIdOr(metaIds, LAMBDA id : includes(id, K_email), ID_email)
        ELSE IF includes(lowerName, K_mobile)
             THEN findIdOr(metaIds, LAMBDA id : includes(id, K_mobile), ID_mobile_number)
        ELSE IF includes(lowerName, K_name)
             THEN findIdOr(metaIds, LAMBDA id : id = ID_name,
                           findIdOr(metaIds, LAMBDA id : includes(id, K_name), ID_name))
        ELSE IF includes(lowerName, K_pan)
             THEN findIdOr(metaIds, LAMBDA id : includes(id, K_pan), ID_pan_id)
        ELSE IF includes(lowerName, K_aadhaar) \/ includes(lowerName, K_aadhar)
             THEN findIdOr(metaIds,
                           LAMBDA id : includes(id, K_aadhar) \/ includes(id, K_aadhaar),
                           ID_aadhar_id)
        ELSE None

\* (meta && meta.attributes) ? meta.attributes.map(a => a.id) : []
gateMetaIds(purposeId) ==
    LET meta == getConsentMetadata(purposeId)
    IN  IF meta.isNull THEN <<>> ELSE metaIdsOf(meta)

\* the closure findLogicalId of hasRequiredConsents
gateFindLogicalId(purposeId, attrId, attrName) ==
    LET meta    == getConsentMetadata(purposeId)
        metaIds == gateMetaIds(purposeId)
    IN  IF attrId # None /\ \E i \in 1..Len(metaIds) : metaIds[i] = attrId
        THEN attrId
        ELSE IF attrName # None /\ ~meta.isNull
        THEN LET m == matchByLabel(meta, metaIds, attrName)
             IN  IF m # None THEN m ELSE attrId
        ELSE attrId

\* the closure findLogicalId of getMissingRequiredConsents
missingFindLogicalId(purposeId, attrId, attrName) ==
    LET meta    == getConsentMetadata(purposeId)
        metaIds == gateMetaIds(purposeId)
    IN  IF attrId # None /\ \E i \in 1..Len(metaIds) : metaIds[i] = attrId
        THEN attrId
        ELSE IF attrName # None /\ ~meta.isNull
        THEN LET m == matchByLabel(meta, metaIds, attrName)
             IN  IF m # None THEN m ELSE attrId
        ELSE attrId

\* attrName.toLowerCase().replace(/\s+/g, '_')
RECURSIVE replaceSpaces(_)
replaceSpaces(s) ==
    IF s = <<>> THEN <<>>
    ELSE IF Head(s) \in WhiteSpace
         THEN <<"_">> \o replaceSpaces(trimStart(s))
         ELSE <<Head(s)>> \o replaceSpaces(Tail(s))

\* the closure findLogicalId of ConsentController._buildConsentState
\* (a null result is the falsy None)
findLogicalId(purposeId, attrId, attrName) ==
    LET meta == getConsentMetadata(purposeId)
    IN  IF meta.isNull
        THEN Or(attrId, IF attrName # None
                        THEN replaceSpaces(toLowerCase(attrName))
                        ELSE None)
        ELSE LET metaIds == metaIdsOf(meta)
             IN  IF attrId # None /\ \E i \in 1..Len(metaIds) : metaIds[i] = attrId
                 THEN attrId
                 ELSE IF attrName # None
                 THEN LET m == matchByLabel(meta, metaIds, attrName)
                      IN  IF m # None THEN m ELSE attrId
                 ELSE attrId

(***************************************************************************)
(* PrivacyService                                                          *)
(***************************************************************************)
\* What the SDK call getUserConsents resolves to: ok = FALSE is a rejected
\* call (network or API error), otherwise result.consents || [].
ApiFail == [ok |-> FALSE, consents |-> <<>>]
ApiOk(consents) == [ok |-> TRUE, consents |-> consents]

\* consents.filter(c => c.purposeId === purposeId)
getConsentForPurpose(consents, purposeId) ==
    filter(consents, LAMBDA c : c.purposeId = purposeId)

\* the consentedAttributes array both gate functions build
consentedAttributes(consent) ==
    flatten([i \in 1..Len(consent) |->
        LET entry == consent[i]
        IN  IF entry.attributeId # None
            THEN << [attributeId   |-> entry.attributeId,
                     attributeName |-> entry.attributeName,
                     state         |-> entry.state] >>
            ELSE IF entry.attrsIsArray /\ Len(entry.attributes) > 0
            THEN [j \in 1..Len(entry.attributes) |->
                    LET a == entry.attributes[j]
                    IN  [attributeId   |-> Or(a.attributeId, a.id),
                         attributeName |-> Or(Or(a.attributeName, a.label), a.name),
                         state         |-> a.state]]
            ELSE <<>>])

\* hasRequiredConsents whose catch block returns true (fail-open)
hasRequiredConsentsFailOpen(api, purposeId, requiredAttributes) ==
    IF ~api.ok THEN TRUE
    ELSE
    LET consent == getConsentForPurpose(api.consents, purposeId)
    IN  IF Len(consent) = 0 THEN FALSE
        ELSE IF Len(requiredAttributes) = 0 THEN TRUE
        ELSE
        LET ca == consentedAttributes(consent)
        IN  \A r \in 1..Len(requiredAttributes) :
                \E i \in 1..Len(ca) :
                    /\ gateFindLogicalId(purposeId, ca[i].attributeId,
                                         ca[i].attributeName) = requiredAttributes[r]
                    /\ ca[i].state = 1

\* hasRequiredConsents with the state test ca.state (truthy) for ca.state === 1
hasRequiredConsentsAnyState(api, purposeId, requiredAttributes) ==
    IF ~api.ok THEN FALSE
    ELSE
    LET consent == getConsentForPurpose(api.consents, purposeId)
    IN  IF Len(consent) = 0 THEN FALSE
        ELSE IF Len(requiredAttributes) = 0 THEN TRUE
        ELSE
        LET ca == consentedAttributes(consent)
        IN  \A r \in 1..Len(requiredAttributes) :
                \E i \in 1..Len(ca) :
                    /\ gateFindLogicalId(purposeId, ca[i].attributeId,
                                         ca[i].attributeName) = requiredAttributes[r]
                    /\ ca[i].state # 0

\* PrivacyService.hasRequiredConsents
hasRequiredConsents(api, purposeId, requiredAttributes) ==
    IF ~api.ok THEN FALSE
    ELSE
    LET consent == getConsentForPurpose(api.consents, purposeId)
    IN  IF Len(consent) = 0 THEN FALSE
        ELSE IF Len(requiredAttributes) = 0 THEN TRUE
        ELSE
        LET ca == consentedAttributes(consent)
            consentedLogical ==
                [i \in 1..Len(ca) |->
                    [logicalId |-> gateFindLogicalId(purposeId, ca[i].attributeId,
                                                     ca[i].attributeName),
                     state     |-> ca[i].state]]
        IN  \A r \in 1..Len(requiredAttributes) :
                \E i \in 1..Len(consentedLogical) :
                    /\ consentedLogical[i].logicalId = requiredAttributes[r]
                    /\ consentedLogical[i].state = 1

\* getMissingRequiredConsents without the filter on the purpose
getMissingAnyPurpose(api, purposeId, requiredAttributes) ==
    IF ~api.ok THEN requiredAttributes
    ELSE
    LET consent == api.consents
    IN  IF Len(consent) = 0 THEN requiredAttributes
        ELSE IF Len(requiredAttributes) = 0 THEN <<>>
        ELSE
        LET ca == consentedAttributes(consent)
        IN  filter(requiredAttributes,
                   LAMBDA reqAttr :
                     ~\E i \in 1..Len(ca) :
                         /\ missingFindLogicalId(purposeId, ca[i].attributeId,
                                                 ca[i].attributeName) = reqAttr
                         /\ ca[i].state = 1)

\* PrivacyService.getMissingRequiredConsents
getMissingRequiredConsents(api, purposeId, requiredAttributes) ==
    IF ~api.ok THEN requiredAttributes
    ELSE
    LET consent == getConsentForPurpose(api.consents, purposeId)
    IN  IF Len(consent) = 0 THEN requiredAttributes
        ELSE IF Len(requiredAttributes) = 0 THEN <<>>
        ELSE
        LET ca == consentedAttributes(consent)
            consentedLogical ==
                [i \in 1..Len(ca) |->
                    [logicalId |-> missingFindLogicalId(purposeId, ca[i].attributeId,
                                                        ca[i].attributeName),
                     state     |-> ca[i].state]]
        IN  filter(requiredAttributes,
                   LAMBDA reqAttr :
                     ~\E i \in 1..Len(consentedLogical) :
                         /\ consentedLogical[i].logicalId = reqAttr
                         /\ consentedLogical[i].state = 1)

(***************************************************************************)
(* ConsentController                                                       *)
(***************************************************************************)
MarketingAttrs == <<ID_name, ID_email, ID_mobile_number>>
RequiredITR    == <<ID_name, ID_email, ID_mobile_number, ID_aadhar_id, ID_pan_id>>

Range(seq) == {seq[i] : i \in 1..Len(seq)}

\* the consent state returned for an empty (or missing) list
DefaultConsentState ==
    (MARKETING :> [a \in Range(MarketingAttrs) |-> FALSE]) @@
    (ITR       :> [a \in Range(RequiredITR)    |-> FALSE])

\* the empty object {}
EmptyObj == [k \in {} |-> FALSE]

\* setAttr that keeps the value of an attribute already present
setAttrKeepFirst(state, purposeId, logical, value) ==
    [state EXCEPT ![purposeId] = @ @@ (logical :> value)]

\* state[purposeId][logical] = value  (a later write replaces an earlier one)
setAttr(state, purposeId, logical, value) ==
    [state EXCEPT ![purposeId] = (logical :> value) @@ @]

\* the (logical, granted) writes one consent entry causes, in order
entryWrites(consent) ==
    IF consent.attributeId # None
    THEN << [logical |-> findLogicalId(consent.purposeId, consent.attributeId,
                                       consent.attributeName),
             value   |-> (consent.state = 1)] >>
    ELSE [j \in 1..Len(consent.attributes) |->
            LET attr == consent.attributes[j]
            IN  [logical |-> findLogicalId(consent.purposeId,
                                           Or(attr.attributeId, attr.id),
                                           Or(Or(attr.attributeName, attr.label), attr.name)),
                 value   |-> (attr.state = 1)]]

RECURSIVE applyWrites(_, _, _)
applyWrites(state, purposeId, writes) ==
    IF writes = <<>> THEN state
    ELSE applyWrites(setAttr(state, purposeId, Head(writes).logical, Head(writes).value),
                     purposeId, Tail(writes))

\* the body of consents.forEach in _buildConsentState
RECURSIVE processConsents(_, _)
processConsents(state, consents) ==
    IF consents = <<>> THEN state
    ELSE LET consent == Head(consents)
             st1 == IF consent.purposeId \in DOMAIN state
                    THEN state
                    ELSE (consent.purposeId :> EmptyObj) @@ state
         IN  processConsents(applyWrites(st1, consent.purposeId, entryWrites(consent)),
                             Tail(consents))

\* ConsentController._buildConsentState
buildConsentState(consents) ==
    IF Len(consents) = 0 THEN DefaultConsentState
    ELSE processConsents((MARKETING :> EmptyObj) @@ (ITR :> EmptyObj), consents)

\* consentState[purposeId][attr] === true
isGranted(consentState, purposeId, attr) ==
    /\ purposeId \in DOMAIN consentState
    /\ attr \in DOMAIN consentState[purposeId]
    /\ consentState[purposeId][attr] = TRUE

\* ConsentController._hasAllRequired
hasAllRequired(consentState, purposeId, requiredAttributes) ==
    \A i \in 1..Len(requiredAttributes) :
        isGranted(consentState, purposeId, requiredAttributes[i])

(***************************************************************************)
(* State                                                                   *)
(***************************************************************************)
VARIABLES
    store,     \* the consent records the external privacy system holds
    session,   \* the session store: per session the token set and tempUser
    client,    \* OAuthController._client is set (shared by all requests)
    pc,        \* per session: the await an in-flight /itr/assess is parked at
    last,      \* the latest response sent
    hist,      \* per session: what has happened so far (history)
    call       \* the latest application of a PrivacyService/ConsentController function

vars == <<store, session, client, pc, last, hist, call>>

(***************************************************************************)
(* Consent records the privacy API can return                              *)
(***************************************************************************)
\* a consent entry that carries its attribute at top level
Flat(purposeId, attributeId, attributeName, state) ==
    [purposeId |-> purposeId, attributeId |-> attributeId,
     attributeName |-> attributeName, state |-> state,
     attributes |-> <<>>, attrsIsArray |-> TRUE]

\* a consent entry that carries an attributes collection (array or object)
Nested(purposeId, attributes, isArray) ==
    [purposeId |-> purposeId, attributeId |-> None, attributeName |-> None,
     state |-> 0, attributes |-> attributes, attrsIsArray |-> isArray]

\* an element of an attributes collection
Attr(attributeId, id, attributeName, label, name, state) ==
    [attributeId |-> attributeId, id |-> id, attributeName |-> attributeName,
     label |-> label, name |-> name, state |-> state]

T7 == <<"7">>
T9 == <<"9">>
UNKNOWN_PURPOSE == "OTHER_PURPOSE"

N_fullNamePadded == <<" ","f","u","l","l"," ","N","A","M","E"," ">>
N_Number         == <<"N","u","m","b","e","r">>
N_CompanyPAN     == <<"C","o","m","p","a","n","y"," ","P","A","N">>
N_Phone          == <<"P","h","o","n","e">>
N_Blank          == <<" "," ">>
N_PrimaryEmail   == <<"P","r","i","m","a","r","y"," ","e","m","a","i","l">>
N_AadharCard     == <<"a","a","d","h","a","r"," ","c","a","r","d">>
N_NameForEmail   == <<"N","a","m","e"," ","f","o","r"," ","e","m","a","i","l">>

AllFiveGranted ==
    << Attr(ID_name, None, None, None, None, 1),
       Attr(None, ID_email, None, None, None, 1),
       Attr(ID_mobile_number, None, L_MobileNumber, None, None, 1),
       Attr(T7, None, None, N_AadharCard, None, 1),
       Attr(None, ID_pan_id, None, None, None, 1) >>

RecordUniverse ==
    { Flat(ITR, ID_name, None, 1),
      Flat(ITR, ID_name, None, 2),
      Flat(ITR, ID_pan_id, L_PANNumber, 1),
      Flat(ITR, T7, N_fullNamePadded, 1),
      Flat(ITR, T7, L_FullName, 3),
      Flat(ITR, T9, N_Number, 1),
      Flat(ITR, T9, N_CompanyPAN, 1),
      Flat(ITR, T9, N_Phone, 1),
      Flat(ITR, T7, N_Blank, 1),
      Flat(MARKETING, ID_name, None, 1),
      Flat(MARKETING, ID_email, None, 5),
      Flat(MARKETING, ID_mobile_number, None, 4),
      Flat(UNKNOWN_PURPOSE, ID_name, None, 1),
      Flat(ITR, T9, N_NameForEmail, 1),
      Nested(UNKNOWN_PURPOSE, << Attr(None, None, L_FullName, None, None, 1) >>, TRUE),
      Nested(ITR, AllFiveGranted, TRUE),
      Nested(ITR, << Attr(None, None, None, None, N_PrimaryEmail, 1),
                     Attr(None, ID_aadhar_id, None, None, None, 2) >>, TRUE),
      Nested(ITR, << Attr(ID_email, None, None, None, None, 1) >>, FALSE),
      Nested(ITR, <<>>, TRUE) }

\* the sequences over S of length at most n
RECURSIVE SeqsUpTo(_, _)
SeqsUpTo(S, n) ==
    IF n = 0 THEN {<<>>}
    ELSE LET shorter == SeqsUpTo(S, n - 1)
         IN  shorter \cup {Append(q, x) : q \in shorter, x \in S}

Purposes == {MARKETING, ITR}

RequiredLists ==
    { <<>>, <<ID_name>>, <<ID_email, ID_name>>, <<ID_pan_id, ID_aadhar_id>>,
      <<ID_mobile_number>>, RequiredITR }

NoToken == "none"
TokenSet == "tokenSet"
NoUser  == [present |-> FALSE]
NoResponse == [kind |-> "none"]
NoCall  == [fn |-> "none"]
Idle    == [at |-> "idle"]

InitSession == [authToken |-> NoToken, tempUser |-> NoUser]
\* exchanged: a token exchange succeeded for the session since it was created;
\* registered: a registration was completed in the session and no new one
\* begun; authorized: a login request of the session was redirected to the
\* identity provider
InitHist == [assessPassed |-> FALSE, step1Done |-> FALSE, step2Done |-> FALSE,
             exchanged |-> FALSE, registered |-> FALSE, authorized |-> FALSE]

\* the state after the server has started, with the sessions S
InitWeb(S) ==
    /\ session = [s \in S |-> InitSession]
    /\ client = FALSE
    /\ pc = [s \in S |-> Idle]
    /\ last = NoResponse
    /\ hist = [s \in S |-> InitHist]
    /\ call = NoCall

(***************************************************************************)
(* The pure functions applied to every consent list up to MaxLen: a         *)
(* behaviour draws one list and applies one function to it once.           *)
(***************************************************************************)
InitGate ==
    /\ store \in SeqsUpTo(RecordUniverse, MaxLen)
    /\ InitWeb({"s1"})

\* one application of hasRequiredConsents
CallHasRequired(api, purposeId, required) ==
    /\ call = NoCall
    /\ call' = [fn |-> "hasRequiredConsents", api |-> api, purposeId |-> purposeId,
                required |-> required,
                result |-> hasRequiredConsents(api, purposeId, required)]
    /\ UNCHANGED <<store, session, client, pc, last, hist>>

\* one application of getMissingRequiredConsents
CallGetMissing(api, purposeId, required) ==
    /\ call = NoCall
    /\ call' = [fn |-> "getMissingRequiredConsents", api |-> api,
                purposeId |-> purposeId, required |-> required,
                gate |-> hasRequiredConsents(api, purposeId, required),
                result |-> getMissingRequiredConsents(api, purposeId, required)]
    /\ UNCHANGED <<store, session, client, pc, last, hist>>

\* one application of _buildConsentState
CallBuild ==
    /\ call = NoCall
    /\ call' = [fn |-> "_buildConsentState", consents |-> store,
                result |-> buildConsentState(store)]
    /\ UNCHANGED <<store, session, client, pc, last, hist>>

NextGate ==
    \/ \E api \in {ApiOk(store), ApiFail}, p \in Purposes, req \in RequiredLists :
          CallHasRequired(api, p, req)
    \/ \E api \in {ApiOk(store), ApiFail}, p \in Purposes, req \in RequiredLists :
          CallGetMissing(api, p, req)
    \/ CallBuild

SpecGate == InitGate /\ [][NextGate]_vars

(***************************************************************************)
(* The web application: responses                                          *)
(***************************************************************************)
\* static OAuthController.isLoggedIn
isLoggedIn(sess) == sess.authToken # NoToken /\ sess.authToken # ""

\* the router.use middleware of itr-route.js and consent-route.js lets the
\* request through to its handler
middlewareAlwaysNext(sess) == TRUE

middlewarePasses(sess) == isLoggedIn(sess)

\* a response to a request of session s on a route; loggedIn is whether the
\* session held a token set when the request arrived, ran whether the route
\* handler was entered, calls the number of privacy API calls the request
\* made, detail what the handler put into the response
Response(s, route, loggedIn, ran, status, kind, target, calls, detail) ==
    [sid |-> s, route |-> route, loggedIn |-> loggedIn, handlerRan |-> ran,
     status |-> status, kind |-> kind, target |-> target, apiCalls |-> calls,
     detail |-> detail]

NoDetail == [none |-> TRUE]

\* res.redirect('/login') by the router middleware
MiddlewareRedirect(s, route) ==
    Response(s, route, FALSE, FALSE, 302, "redirect", "/login", 0, NoDetail)

\* what the privacy API answers to a getUserConsents call
ApiAnswers == {ApiOk(store), ApiFail}

(***************************************************************************)
(* OAuthController                                                         *)
(***************************************************************************)
\* uuid(): the state value authorize puts into the authorization URL it
\* redirects a request of session s to
uuid(s) == <<"state", s>>

\* a state value no login request issued
ForgedState == <<"state", "forged">>

\* the query of a callback request: the state parameter it carries
CallbackParams(s) == { [state |-> uuid(s)], [state |-> ForgedState] }

\* what becomes of a request whose async handler rejects, no error
\* middleware being registered: Express 4 sends nothing, Express 5 passes
\* the error to its default handler, which answers 500
RejectionOutcomes == {"unanswered", "errorPage"}

\* GET /login: OAuthController.authorize
Authorize(s, discoveryOk) ==
    /\ IF ~discoveryOk
       THEN /\ last' = Response(s, "GET /login", isLoggedIn(session[s]), TRUE, 500,
                                "send", "OIDC discovery failed", 0,
                                [discoveryOk |-> FALSE, state |-> None])
            /\ UNCHANGED <<client, hist>>
       ELSE /\ client' = TRUE
            /\ hist' = [hist EXCEPT ![s].authorized = TRUE]
            /\ last' = Response(s, "GET /login", isLoggedIn(session[s]), TRUE, 302,
                                "redirect", "authorizationUrl", 0,
                                [discoveryOk |-> TRUE, state |-> uuid(s)])
    /\ UNCHANGED <<store, session, pc, call>>

\* the checks aznCallback hands to client.callback: { state: params.state }
callbackChecks(params) == [state |-> params.state]

\* client.callback that never rejects
tokenExchangeNoReject(hasClient, params, exchangeOk) ==
    [threw |-> FALSE, tokenSet |-> TokenSet]

\* this._client.callbackParams(req) and this._client.callback(...): without
\* this._client the first statement throws; the library rejects a response
\* whose state differs from checks.state, and a failed token exchange rejects
tokenExchange(hasClient, params, exchangeOk) ==
    IF ~hasClient THEN [threw |-> TRUE, tokenSet |-> NoToken]
    ELSE IF params.state # callbackChecks(params).state
    THEN [threw |-> TRUE, tokenSet |-> NoToken]
    ELSE IF ~exchangeOk THEN [threw |-> TRUE, tokenSet |-> NoToken]
    ELSE [threw |-> FALSE, tokenSet |-> TokenSet]

\* GET /auth/callback: OAuthController.aznCallback.  The async handler has
\* no catch: when it throws or rejects it sends no response itself.
AznCallback(s, params, exchangeOk) ==
    LET r == tokenExchange(client, params, exchangeOk)
        d == [client |-> client, exchangeOk |-> exchangeOk, state |-> params.state]
    IN
    /\ IF r.threw
       THEN /\ \E outcome \in RejectionOutcomes :
                 IF outcome = "unanswered"
                 THEN last' = Response(s, "GET /auth/callback", isLoggedIn(session[s]),
                                       TRUE, 0, "unanswered", "", 0, d)
                 ELSE last' = Response(s, "GET /auth/callback", isLoggedIn(session[s]),
                                       TRUE, 500, "send", "Internal Server Error", 0, d)
            /\ UNCHANGED <<session, hist>>
       ELSE /\ session' = [session EXCEPT ![s].authToken = r.tokenSet]
            /\ hist' = [hist EXCEPT ![s].exchanged = @ \/ (client /\ exchangeOk)]
            /\ last' = Response(s, "GET /auth/callback", isLoggedIn(session[s]), TRUE, 302,
                                "redirect", "/", 0, d)
    /\ UNCHANGED <<store, client, pc, call>>

\* req.session.destroy() leaving the session as it was
destroySessionKept(sess) == sess

\* req.session.destroy(): the session is removed from the session store, the
\* next request of the browser starts a fresh one
destroySession(sess) == InitSession

\* GET /logout: OAuthController.logout
Logout(s) ==
    /\ IF ~isLoggedIn(session[s])
       THEN /\ last' = Response(s, "GET /logout", FALSE, TRUE, 302, "redirect", "/",
                                0, NoDetail)
            /\ UNCHANGED <<session, hist>>
       ELSE /\ session' = [session EXCEPT ![s] = destroySession(session[s])]
            /\ hist' = [hist EXCEPT ![s] = InitHist]
            /\ last' = Response(s, "GET /logout", TRUE, TRUE, 302, "redirect",
                                "verifyLogout", 0, NoDetail)
    /\ UNCHANGED <<store, client, pc, call>>

(***************************************************************************)
(* ITRController behind the itr-route middleware                           *)
(***************************************************************************)
\* POST /itr/assess up to the response or to the second await:
\* middleware, ITRController.assessAndFile lines 24-49
AssessGate(s) ==
    /\ pc[s].at = "idle"
    /\ IF ~middlewarePasses(session[s])
       THEN /\ last' = MiddlewareRedirect(s, "POST /itr/assess")
            /\ UNCHANGED <<pc, hist>>
       ELSE IF ~isLoggedIn(session[s])
       THEN /\ last' = Response(s, "POST /itr/assess", FALSE, TRUE, 302, "redirect",
                                "/login", 0, NoDetail)
            /\ UNCHANGED <<pc, hist>>
       ELSE \E api \in ApiAnswers :
            LET canFile == hasRequiredConsents(api, ITR, RequiredITR)
            IN  IF canFile
                THEN /\ last' = Response(s, "POST /itr/assess", TRUE, TRUE, 302,
                                         "redirect", "/itr/success", 1,
                                         [gateOk |-> api.ok])
                     /\ hist' = [hist EXCEPT ![s].assessPassed = TRUE]
                     /\ UNCHANGED pc
                ELSE /\ pc' = [pc EXCEPT ![s] = [at |-> "missing", gateOk |-> api.ok]]
                     /\ UNCHANGED <<last, hist>>
    /\ UNCHANGED <<store, session, client, call>>

\* POST /itr/assess, the blocked branch: assessAndFile lines 50-71
AssessMissing(s) ==
    /\ pc[s].at = "missing"
    /\ \E api \in ApiAnswers :
       LET missing == getMissingRequiredConsents(api, ITR, RequiredITR)
       IN  last' = Response(s, "POST /itr/assess", TRUE, TRUE, 403, "render",
                            "itr-blocked", 2,
                            [gateOk |-> pc[s].gateOk, missingOk |-> api.ok,
                             missingConsents |-> missing])
    /\ pc' = [pc EXCEPT ![s] = Idle]
    /\ UNCHANGED <<store, session, client, hist, call>>

\* GET /itr/success: middleware, ITRController.getSuccess
GetSuccess(s) ==
    /\ IF ~middlewarePasses(session[s])
       THEN last' = MiddlewareRedirect(s, "GET /itr/success")
       ELSE IF ~isLoggedIn(session[s])
       THEN last' = Response(s, "GET /itr/success", FALSE, TRUE, 302, "redirect",
                             "/login", 0, NoDetail)
       ELSE last' = Response(s, "GET /itr/success", TRUE, TRUE, 200, "render",
                             "itr-success", 0, [referenceId |-> TRUE])
    /\ UNCHANGED <<store, session, client, pc, hist, call>>

\* GET /itr/blocked: middleware, ITRController.getBlocked
GetBlocked(s) ==
    /\ IF ~middlewarePasses(session[s])
       THEN last' = MiddlewareRedirect(s, "GET /itr/blocked")
       ELSE IF ~isLoggedIn(session[s])
       THEN last' = Response(s, "GET /itr/blocked", FALSE, TRUE, 302, "redirect",
                             "/login", 0, NoDetail)
       ELSE last' = Response(s, "GET /itr/blocked", TRUE, TRUE, 200, "render",
                             "itr-blocked", 0, NoDetail)
    /\ UNCHANGED <<store, session, client, pc, hist, call>>

(***************************************************************************)
(* Storing a consent: PrivacyService.updateConsent and the privacy system  *)
(***************************************************************************)
\* The privacy system after storeConsents([value]) succeeded: it holds one
\* record for (purposeId, attributeId) with the new state.  Where the API
\* lists it is the privacy system's choice: at the place of the record it
\* replaces, or at the end.
storeConsents(consents, value, placement) ==
    LET same(c) == c.purposeId = value.purposeId /\ c.attributeId = value.attributeId
        rec     == Flat(value.purposeId, value.attributeId, None, value.state)
        first   == find(consents, same)
        others(q) == filter(q, LAMBDA c : ~same(c))
    IN  IF first = 0 \/ placement = "atEnd"
        THEN Append(others(consents), rec)
        ELSE others(SubSeq(consents, 1, first - 1)) \o <<rec>>
                \o others(SubSeq(consents, first + 1, Len(consents)))

\* what dpcmClient.getConsentMetadata([purposeId]) can answer: a failure, a
\* response without the purpose, or the purpose with its attribute ids
MetaResponses ==
    { [ok |-> FALSE, hasPurpose |-> FALSE, attrIds |-> <<>>],
      [ok |-> TRUE,  hasPurpose |-> FALSE, attrIds |-> <<>>],
      [ok |-> TRUE,  hasPurpose |-> TRUE,  attrIds |-> RequiredITR],
      [ok |-> TRUE,  hasPurpose |-> TRUE,  attrIds |-> MarketingAttrs] }

StoreOutcomes == {"success", "fail", "throw"}
Placements == {"inPlace", "atEnd"}

\* updateConsent without the check of the attribute against the metadata
updateConsentUnchecked(consents, purposeId, attributeId, state, metaResp, outcome, placement) ==
    IF outcome = "throw"
    THEN [threw |-> TRUE, code |-> "", status |-> "",
          storeCalled |-> TRUE, consents |-> consents]
    ELSE IF outcome = "fail"
    THEN [threw |-> FALSE, code |-> "", status |-> "fail",
          storeCalled |-> TRUE, consents |-> consents]
    ELSE [threw |-> FALSE, code |-> "", status |-> "success",
          storeCalled |-> TRUE,
          consents |-> storeConsents(consents,
                                     [purposeId |-> purposeId,
                                      attributeId |-> attributeId,
                                      state |-> state],
                                     placement)]

\* PrivacyService.updateConsent: threw with its error code, or the result
\* of storeConsents; consents is the privacy system's list afterwards
updateConsent(consents, purposeId, attributeId, state, metaResp, outcome, placement) ==
    IF /\ metaResp.ok
       /\ metaResp.hasPurpose
       /\ ~\E i \in 1..Len(metaResp.attrIds) : metaResp.attrIds[i] = attributeId
    THEN [threw |-> TRUE, code |-> "ATTRIBUTE_NOT_IN_PURPOSE", status |-> "",
          storeCalled |-> FALSE, consents |-> consents]
    ELSE IF outcome = "throw"
    THEN [threw |-> TRUE, code |-> "", status |-> "",
          storeCalled |-> TRUE, consents |-> consents]
    ELSE IF outcome = "fail"
    THEN [threw |-> FALSE, code |-> "", status |-> "fail",
          storeCalled |-> TRUE, consents |-> consents]
    ELSE [threw |-> FALSE, code |-> "", status |-> "success",
          storeCalled |-> TRUE,
          consents |-> storeConsents(consents,
                                     [purposeId |-> purposeId,
                                      attributeId |-> attributeId,
                                      state |-> state],
                                     placement)]

(***************************************************************************)
(* ConsentController behind the consent-route middleware                   *)
(***************************************************************************)
\* JavaScript values of the state field of a request body
JsTrue   == [t |-> "boolean", v |-> "true"]
JsFalse  == [t |-> "boolean", v |-> "false"]
JsNum(n) == [t |-> "number", v |-> n]
JsStr(x) == [t |-> "string", v |-> x]

\* the conversion with loose equality: state == true || state == 1
toVerifyStateLoose(state) == IF state.v = "true" \/ state.v = "1" THEN 1 ELSE 2

\* state === true || state === 1 ? 1 : 2
toVerifyState(state) == IF state = JsTrue \/ state = JsNum("1") THEN 1 ELSE 2

\* the request bodies of POST /consent/update that are tried
UpdateBodies ==
    { [purposeId |-> ITR, attributeId |-> ID_name,   state |-> JsTrue],
      [purposeId |-> ITR, attributeId |-> ID_name,   state |-> JsFalse],
      [purposeId |-> ITR, attributeId |-> ID_pan_id, state |-> JsStr("1")],
      [purposeId |-> ITR, attributeId |-> ID_name,   state |-> JsNum("1")],
      [purposeId |-> ITR, attributeId |-> ID_name,   state |-> JsNum("2")],
      [purposeId |-> "",  attributeId |-> ID_name,   state |-> JsTrue],
      [purposeId |-> ITR, attributeId |-> None,      state |-> JsTrue] }

\* GET /consent/management: middleware, ConsentController.getConsentPage
GetConsentPage(s) ==
    /\ IF ~middlewarePasses(session[s])
       THEN last' = MiddlewareRedirect(s, "GET /consent/management")
       ELSE IF ~isLoggedIn(session[s])
       THEN last' = Response(s, "GET /consent/management", FALSE, TRUE, 302,
                             "redirect", "/login", 0, NoDetail)
       ELSE \E api \in ApiAnswers :
            last' = Response(s, "GET /consent/management", TRUE, TRUE, 200, "render",
                             "consent-management", 1,
                             [consentState |-> IF api.ok
                                               THEN buildConsentState(api.consents)
                                               ELSE EmptyObj,
                              apiError |-> ~api.ok])
    /\ UNCHANGED <<store, session, client, pc, hist, call>>

\* GET /consent/state: middleware, ConsentController.getConsentState
GetConsentState(s) ==
    /\ IF ~middlewarePasses(session[s])
       THEN last' = MiddlewareRedirect(s, "GET /consent/state")
       ELSE IF ~isLoggedIn(session[s])
       THEN last' = Response(s, "GET /consent/state", FALSE, TRUE, 401, "json",
                             "Not authenticated", 0, NoDetail)
       ELSE \E api \in ApiAnswers :
            last' = Response(s, "GET /consent/state", TRUE, TRUE, 200, "json",
                             "success", 1,
                             [consentState |-> IF api.ok
                                               THEN buildConsentState(api.consents)
                                               ELSE EmptyObj,
                              warning |-> ~api.ok])
    /\ UNCHANGED <<store, session, client, pc, hist, call>>

\* the result check answering success whatever status the result has
resultIsSuccessAlways(result) == TRUE

\* updateConsentToggle: !(!result || result.status !== 'success')
resultIsSuccess(result) == result.status = "success"

\* POST /consent/update: middleware, ConsentController.updateConsentToggle
UpdateConsentToggle(s, body) ==
    /\ IF ~middlewarePasses(session[s])
       THEN /\ last' = MiddlewareRedirect(s, "POST /consent/update")
            /\ UNCHANGED store
       ELSE IF ~isLoggedIn(session[s])
       THEN /\ last' = Response(s, "POST /consent/update", FALSE, TRUE, 401, "json",
                                "Not authenticated", 0, NoDetail)
            /\ UNCHANGED store
       ELSE IF body.purposeId = "" \/ body.attributeId = None
       THEN /\ last' = Response(s, "POST /consent/update", TRUE, TRUE, 400, "json",
                                "Missing required fields", 0,
                                [body |-> body, success |-> FALSE])
            /\ UNCHANGED store
       ELSE LET consentState == toVerifyState(body.state) IN
            \E r \in { updateConsent(store, body.purposeId, body.attributeId,
                                     consentState, metaResp, outcome, placement) :
                          metaResp \in MetaResponses, outcome \in StoreOutcomes,
                          placement \in Placements } :
            LET calls == IF r.storeCalled THEN 2 ELSE 1
            IN  /\ store' = r.consents
                /\ IF r.threw
                   THEN last' = Response(s, "POST /consent/update", TRUE, TRUE, 500,
                                         "json", "Failed to update consent", calls,
                                         [body |-> body, success |-> FALSE,
                                          code |-> r.code, threw |-> TRUE,
                                          storeCalled |-> r.storeCalled,
                                          storeStatus |-> r.status])
                   ELSE IF ~resultIsSuccess(r)
                   THEN last' = Response(s, "POST /consent/update", TRUE, TRUE, 500,
                                         "json", "Privacy API failed to update consent",
                                         calls,
                                         [body |-> body, success |-> FALSE,
                                          code |-> "", threw |-> FALSE,
                                          storeCalled |-> r.storeCalled,
                                          storeStatus |-> r.status])
                   ELSE last' = Response(s, "POST /consent/update", TRUE, TRUE, 200,
                                         "json", "success", calls,
                                         [body |-> body, success |-> TRUE,
                                          threw |-> FALSE,
                                          storeCalled |-> r.storeCalled,
                                          storeStatus |-> r.status,
                                          purposeId |-> body.purposeId,
                                          attributeId |-> body.attributeId,
                                          state |-> consentState])
    /\ UNCHANGED <<session, client, pc, hist, call>>

(***************************************************************************)
(* RegistrationController                                                  *)
(***************************************************************************)
Digits == {"0", "1", "2", "3", "4", "5", "6", "7", "8", "9"}
Letters == {LowerOf[c] : c \in DOMAIN LowerOf}

\* String.prototype.toUpperCase
toUpperCase(s) ==
    [i \in 1..Len(s) |->
        IF s[i] \in Letters
        THEN CHOOSE c \in DOMAIN LowerOf : LowerOf[c] = s[i]
        ELSE s[i]]

\* s.replace(/\D/g, '')
digitsOf(s) == filter(s, LAMBDA c : c \in Digits)

\* s.replace(/\s/g, '')
withoutSpaces(s) == filter(s, LAMBDA c : c \notin WhiteSpace)

\* every character of s[from..to] is neither white space nor '@', and there is one
plainRun(s, from, to) ==
    /\ from <= to
    /\ \A k \in from..to : s[k] \notin WhiteSpace /\ s[k] # "@"

\* RegistrationController._validateEmail: /^[^\s@]+@[^\s@]+\.[^\s@]+$/
validateEmail(email) ==
    /\ email # None
    /\ \E i \in 1..Len(email) : \E j \in 1..Len(email) :
          /\ email[i] = "@"
          /\ email[j] = "."
          /\ plainRun(email, 1, i - 1)
          /\ plainRun(email, i + 1, j - 1)
          /\ plainRun(email, j + 1, Len(email))

\* RegistrationController._validateMobile: /^\d{10}$/ on the digits
validateMobile(mobile) == mobile # None /\ Len(digitsOf(mobile)) = 10

\* RegistrationController._validateAadhaar: /^\d{12}$/ without white space
validateAadhaar(aadhaar) ==
    /\ aadhaar # None
    /\ LET a == withoutSpaces(aadhaar)
       IN  Len(a) = 12 /\ \A k \in 1..Len(a) : a[k] \in Digits

\* RegistrationController._validatePAN: /^[A-Z]{5}[0-9]{4}[A-Z]{1}$/ on upper case
validatePAN(pan) ==
    /\ pan # None
    /\ LET u == toUpperCase(pan)
       IN  /\ Len(u) = 10
           /\ \A k \in 1..5 : u[k] \in DOMAIN LowerOf
           /\ \A k \in 6..9 : u[k] \in Digits
           /\ u[10] \in DOMAIN LowerOf

\* s.slice(-n)
sliceLast(s, n) == IF Len(s) <= n THEN s ELSE SubSeq(s, Len(s) - n + 1, Len(s))

\* RegistrationController._maskAadhaar
maskAadhaar(aadhaar) ==
    IF aadhaar = None THEN None
    ELSE <<"*","*","*","*","*","*","*","*">> \o sliceLast(digitsOf(aadhaar), 4)

\* RegistrationController._maskPAN
maskPAN(pan) ==
    IF pan = None THEN None
    ELSE LET clean == toUpperCase(pan)
         IN  SubSeq(clean, 1, IF Len(clean) < 5 THEN Len(clean) ELSE 5)
                \o <<"*","*","*","*">> \o sliceLast(clean, 1)

\* A field of a request body that is a non-zero number, as express.json()
\* delivers it: truthy, without trim or replace method and without length.
JsNumber == <<"number">>
isNumber(v) == v # None /\ v[1] = "number"

\* the first failing check of postStep1, "" when all five pass, "TypeError"
\* when a check throws
step1Error(body) ==
    IF body.fullName = None
    THEN "Full name must be at least 2 characters"
    ELSE IF isNumber(body.fullName)
    THEN "TypeError"
    ELSE IF Len(trim(body.fullName)) < 2
    THEN "Full name must be at least 2 characters"
    ELSE IF ~validateEmail(body.email)
    THEN "Please enter a valid email address"
    ELSE IF body.mobile = None
    THEN "Please enter a valid 10-digit mobile number"
    ELSE IF isNumber(body.mobile)
    THEN "TypeError"
    ELSE IF ~validateMobile(body.mobile)
    THEN "Please enter a valid 10-digit mobile number"
    ELSE IF body.password = None
               \/ (~isNumber(body.password) /\ Len(body.password) < 8)
    THEN "Password must be at least 8 characters"
    ELSE IF body.password # body.confirmPassword
    THEN "Passwords do not match"
    ELSE ""

\* the record postStep1 puts into req.session.tempUser
step1User(body) ==
    [present |-> TRUE,
     fullName |-> body.fullName, email |-> body.email, mobile |-> body.mobile,
     password |-> body.password,
     marketingConsents |-> [name   |-> body.marketingName = "on",
                            email  |-> body.marketingEmail = "on",
                            mobile |-> body.marketingMobile = "on"],
     aadhaar |-> None, aadhaarFull |-> None, pan |-> None, panFull |-> None]

\* the consents array postStep3 builds (and logs)
registrationConsents(tempUser) ==
    << [purposeId |-> MARKETING, attributeId |-> ID_name,
        state |-> IF tempUser.marketingConsents.name THEN 1 ELSE 2],
       [purposeId |-> MARKETING, attributeId |-> ID_email,
        state |-> IF tempUser.marketingConsents.email THEN 1 ELSE 2],
       [purposeId |-> MARKETING, attributeId |-> ID_mobile_number,
        state |-> IF tempUser.marketingConsents.mobile THEN 1 ELSE 2],
       [purposeId |-> ITR, attributeId |-> ID_name, state |-> 1],
       [purposeId |-> ITR, attributeId |-> ID_email, state |-> 1],
       [purposeId |-> ITR, attributeId |-> ID_mobile_number, state |-> 1],
       [purposeId |-> ITR, attributeId |-> ID_aadhar_id, state |-> 1],
       [purposeId |-> ITR, attributeId |-> ID_pan_id, state |-> 1] >>

V_name     == <<"A","s","h","a"," ","R","a","o">>
V_email    == <<"a","@","b",".","i","n">>
V_badEmail == <<"a","@","b">>
V_mobile   == <<"9","8","7","6","5"," ","4","3","2","1","0">>
V_password == <<"p","a","s","s","w","0","r","d">>
V_other    == <<"p","a","s","s","w","o","r","d">>
V_aadhaar  == <<"1","2","3","4"," ","5","6","7","8"," ","9","0","1","2">>
V_shortAadhaar == <<"1","2","3","4","5">>
V_pan      == <<"a","b","c","d","e","1","2","3","4","f">>

Step1Form(fullName, email, password, confirmPassword) ==
    [fullName |-> fullName, email |-> email, mobile |-> V_mobile,
     password |-> password, confirmPassword |-> confirmPassword,
     marketingName |-> "on", marketingEmail |-> "", marketingMobile |-> "on"]

\* the request bodies of POST /register/step1 that are tried
Step1Bodies ==
    { Step1Form(V_name, V_email, V_password, V_password),
      Step1Form(V_name, V_badEmail, V_password, V_password),
      Step1Form(V_name, V_email, V_password, V_other) }

\* the request bodies of POST /register/step2 that are tried
Step2Bodies ==
    { [aadhaar |-> V_aadhaar, pan |-> V_pan],
      [aadhaar |-> V_shortAadhaar, pan |-> V_pan] }

\* the request bodies of POST /register/step3 that are tried
Step3Bodies ==
    { [aadhaarConsent |-> "on", panConsent |-> "on"],
      [aadhaarConsent |-> "on", panConsent |-> ""] }

\* postStep3 leaving req.session.tempUser in the session
clearTempUserKept(sess) == sess

\* postStep3: req.session.tempUser = null
clearTempUser(sess) == [sess EXCEPT !.tempUser = NoUser]

\* postStep3 with the consent test passing when either box is 'on'
bothConsentsGivenEither(body) == body.aadhaarConsent = "on" \/ body.panConsent = "on"

\* postStep3: aadhaarConsent and panConsent are both 'on'
bothConsentsGiven(body) == body.aadhaarConsent = "on" /\ body.panConsent = "on"

\* GET /register/step1: RegistrationController.getStep1
GetStep1(s) ==
    /\ IF isLoggedIn(session[s])
       THEN last' = Response(s, "GET /register/step1", TRUE, TRUE, 302, "redirect",
                             "/dashboard", 0, NoDetail)
       ELSE last' = Response(s, "GET /register/step1", FALSE, TRUE, 200, "render",
                             "register-step1", 0, NoDetail)
    /\ UNCHANGED <<store, session, client, pc, hist, call>>

\* POST /register/step1: RegistrationController.postStep1
PostStep1(s, body) ==
    /\ LET err == step1Error(body)
           in  == isLoggedIn(session[s])
       IN  IF err = "TypeError"
           THEN /\ last' = Response(s, "POST /register/step1", in, TRUE, 500, "render",
                                    "register-step1", 0,
                                    [error |-> "An error occurred. Please try again.",
                                     body |-> body])
                /\ UNCHANGED <<session, hist>>
           ELSE IF err # ""
           THEN /\ last' = Response(s, "POST /register/step1", in, TRUE, 400, "render",
                                    "register-step1", 0, [error |-> err, body |-> body])
                /\ UNCHANGED <<session, hist>>
           ELSE /\ session' = [session EXCEPT ![s].tempUser = step1User(body)]
                /\ hist' = [hist EXCEPT ![s].step1Done = TRUE, ![s].registered = FALSE]
                /\ last' = Response(s, "POST /register/step1", in, TRUE, 302, "redirect",
                                    "/register/step2", 0, [error |-> "", body |-> body])
    /\ UNCHANGED <<store, client, pc, call>>

\* GET /register/step2: RegistrationController.getStep2
GetStep2(s) ==
    /\ IF isLoggedIn(session[s])
       THEN last' = Response(s, "GET /register/step2", TRUE, TRUE, 302, "redirect",
                             "/dashboard", 0, NoDetail)
       ELSE IF ~session[s].tempUser.present
       THEN last' = Response(s, "GET /register/step2", FALSE, TRUE, 302, "redirect",
                             "/register/step1", 0, NoDetail)
       ELSE last' = Response(s, "GET /register/step2", FALSE, TRUE, 200, "render",
                             "register-step2", 0, NoDetail)
    /\ UNCHANGED <<store, session, client, pc, hist, call>>

\* POST /register/step2: RegistrationController.postStep2
PostStep2(s, body) ==
    /\ LET in == isLoggedIn(session[s])
       IN  IF ~session[s].tempUser.present
           THEN /\ last' = Response(s, "POST /register/step2", in, TRUE, 302, "redirect",
                                    "/register/step1", 0, NoDetail)
                /\ UNCHANGED <<session, hist>>
           ELSE IF ~validateAadhaar(body.aadhaar)
           THEN /\ last' = Response(s, "POST /register/step2", in, TRUE, 400, "render",
                                    "register-step2", 0,
                                    [error |-> "Please enter a valid 12-digit Aadhaar number"])
                /\ UNCHANGED <<session, hist>>
           ELSE IF ~validatePAN(body.pan)
           THEN /\ last' = Response(s, "POST /register/step2", in, TRUE, 400, "render",
                                    "register-step2", 0,
                                    [error |-> "Please enter a valid 10-character PAN number"])
                /\ UNCHANGED <<session, hist>>
           ELSE /\ session' = [session EXCEPT
                                 ![s].tempUser.aadhaar = maskAadhaar(body.aadhaar),
                                 ![s].tempUser.aadhaarFull = body.aadhaar,
                                 ![s].tempUser.pan = maskPAN(body.pan),
                                 ![s].tempUser.panFull = body.pan]
                /\ hist' = [hist EXCEPT ![s].step2Done = TRUE]
                /\ last' = Response(s, "POST /register/step2", in, TRUE, 302, "redirect",
                                    "/register/step3", 0, [error |-> ""])
    /\ UNCHANGED <<store, client, pc, call>>

\* GET /register/step3: RegistrationController.getStep3
GetStep3(s) ==
    /\ IF isLoggedIn(session[s])
       THEN last' = Response(s, "GET /register/step3", TRUE, TRUE, 302, "redirect",
                             "/dashboard", 0, NoDetail)
       ELSE IF ~session[s].tempUser.present \/ session[s].tempUser.aadhaar = None
       THEN last' = Response(s, "GET /register/step3", FALSE, TRUE, 302, "redirect",
                             "/register/step2", 0, NoDetail)
       ELSE last' = Response(s, "GET /register/step3", FALSE, TRUE, 200, "render",
                             "register-step3", 0, NoDetail)
    /\ UNCHANGED <<store, session, client, pc, hist, call>>

\* POST /register/step3: RegistrationController.postStep3.  The call that
\* would store the consents (createConsents) is commented out in the source:
\* the array is built and logged, and the privacy system is not called.
PostStep3(s, body) ==
    /\ LET in == isLoggedIn(session[s])
           before == [step1Done |-> hist[s].step1Done, step2Done |-> hist[s].step2Done,
                      body |-> body]
       IN  IF ~session[s].tempUser.present
           THEN /\ last' = Response(s, "POST /register/step3", in, TRUE, 302, "redirect",
                                    "/register/step1", 0, before)
                /\ UNCHANGED <<session, hist>>
           ELSE IF ~bothConsentsGiven(body)
           THEN /\ last' = Response(s, "POST /register/step3", in, TRUE, 400, "render",
                                    "register-step3", 0, before)
                /\ UNCHANGED <<session, hist>>
           ELSE /\ session' = [session EXCEPT ![s] = clearTempUser(session[s])]
                /\ hist' = [hist EXCEPT ![s].step1Done = FALSE, ![s].step2Done = FALSE,
                                        ![s].registered = TRUE]
                /\ last' = Response(s, "POST /register/step3", in, TRUE, 302, "redirect",
                                    "/login?registered=true", 0,
                                    before @@
                                    [consents |-> registrationConsents(session[s].tempUser)])
    /\ UNCHANGED <<store, client, pc, call>>

(***************************************************************************)
(* The web application                                                     *)
(***************************************************************************)
FiveFlatGranted ==
    << Flat(ITR, ID_name, None, 1), Flat(ITR, ID_email, None, 1),
       Flat(ITR, ID_mobile_number, None, 1), Flat(ITR, ID_aadhar_id, None, 1),
       Flat(ITR, ID_pan_id, None, 1) >>

\* what the privacy system may hold for the user when the server starts
InitialStores ==
    { <<>>,
      FiveFlatGranted,
      << Flat(ITR, ID_name, None, 2), Flat(ITR, T7, L_FullName, 3) >> }

Init ==
    /\ store \in InitialStores
    /\ InitWeb({"s1"})

Next ==
    \E s \in DOMAIN session :
        \/ \E ok \in BOOLEAN : Authorize(s, ok)
        \/ \E params \in CallbackParams(s), ok \in BOOLEAN : AznCallback(s, params, ok)
        \/ Logout(s)
        \/ AssessGate(s)
        \/ AssessMissing(s)
        \/ GetSuccess(s)
        \/ GetBlocked(s)
        \/ GetConsentPage(s)
        \/ GetConsentState(s)
        \/ \E body \in UpdateBodies : UpdateConsentToggle(s, body)
        \/ GetStep1(s)
        \/ \E body \in Step1Bodies : PostStep1(s, body)
        \/ GetStep2(s)
        \/ \E body \in Step2Bodies : PostStep2(s, body)
        \/ GetStep3(s)
        \/ \E body \in Step3Bodies : PostStep3(s, body)

Spec == Init /\ [][Next]_vars

(***************************************************************************)
(* Two browser sessions on one server: the login, callback and logout      *)
(* handlers of the one OAuthController instance and two gated pages        *)
(***************************************************************************)
InitSessions ==
    /\ store = <<>>
    /\ InitWeb({"s1", "s2"})

NextSessions ==
    \E s \in DOMAIN session :
        \/ \E ok \in BOOLEAN : Authorize(s, ok)
        \/ \E params \in CallbackParams(s), ok \in BOOLEAN : AznCallback(s, params, ok)
        \/ Logout(s)
        \/ GetSuccess(s)
        \/ GetConsentState(s)

SpecSessions == InitSessions /\ [][NextSessions]_vars

(***************************************************************************)
(* PrivacyService.updateConsent applied once to a consent list of the      *)
(* privacy system, for each purpose, attribute, state, metadata answer     *)
(* and outcome of the store call.                                          *)
(***************************************************************************)
\* the attribute ids a caller may pass: two of the ITR purpose's, and an id
\* no purpose lists
UpdateAttributes == {ID_name, ID_pan_id, T7}

InitUpdate ==
    /\ store \in InitialStores
    /\ InitWeb({"s1"})

\* one application of updateConsent
CallUpdateConsent(purposeId, attributeId, state, metaResp, outcome, placement) ==
    /\ call = NoCall
    /\ LET r == updateConsent(store, purposeId, attributeId, state, metaResp,
                              outcome, placement)
       IN  /\ call' = [fn |-> "updateConsent", consents |-> store,
                       purposeId |-> purposeId, attributeId |-> attributeId,
                       state |-> state, metaResp |-> metaResp,
                       outcome |-> outcome, result |-> r]
           /\ store' = r.consents
    /\ UNCHANGED <<session, client, pc, last, hist>>

NextUpdate ==
    \E p \in Purposes, a \in UpdateAttributes, st \in {1, 2},
       metaResp \in MetaResponses, outcome \in StoreOutcomes,
       placement \in Placements :
        CallUpdateConsent(p, a, st, metaResp, outcome, placement)

SpecUpdate == InitUpdate /\ [][NextUpdate]_vars

(***************************************************************************)
(* The registration wizard alone, with request bodies of step 1 that fail  *)
(* each check, vary the check boxes and carry numbers in place of text.    *)
(***************************************************************************)
V_shortName     == <<"A">>
V_paddedName    == <<" ","A"," ">>
V_shortMobile   == <<"9","8","7","6","5","4","3","2","1">>
V_shortPassword == <<"p","a","s","s","w","0","r">>

Step1Request(fullName, email, mobile, password, confirmPassword, boxes) ==
    [fullName |-> fullName, email |-> email, mobile |-> mobile,
     password |-> password, confirmPassword |-> confirmPassword,
     marketingName |-> boxes[1], marketingEmail |-> boxes[2],
     marketingMobile |-> boxes[3]]

\* the request bodies of POST /register/step1 tried on the wizard alone
Step1Requests ==
    { Step1Request(V_name, V_email, V_mobile, V_password, V_password, <<"on", "", "on">>),
      Step1Request(V_name, V_email, V_mobile, V_password, V_password, <<"", "on", "">>),
      Step1Request(V_name, V_email, V_mobile, V_password, V_password, <<"true", "on", "">>),
      Step1Request(None, V_email, V_mobile, V_password, V_password, <<"on", "", "">>),
      Step1Request(V_shortName, V_email, V_mobile, V_password, V_password, <<"on", "", "">>),
      Step1Request(V_paddedName, V_email, V_mobile, V_password, V_password, <<"on", "", "">>),
      Step1Request(V_name, V_badEmail, V_mobile, V_password, V_password, <<"on", "", "">>),
      Step1Request(V_name, V_email, V_shortMobile, V_password, V_password, <<"on", "", "">>),
      Step1Request(V_name, V_email, V_mobile, V_shortPassword, V_shortPassword, <<"on", "", "">>),
      Step1Request(V_name, V_email, V_mobile, V_password, V_other, <<"on", "", "">>),
      Step1Request(JsNumber, V_email, V_mobile, V_password, V_password, <<"on", "", "">>),
      Step1Request(V_name, V_email, JsNumber, V_password, V_password, <<"on", "", "">>),
      Step1Request(V_name, V_email, V_mobile, JsNumber, JsNumber, <<"on", "", "">>) }

InitRegistration ==
    /\ store = <<>>
    /\ InitWeb({"s1"})

NextRegistration ==
    \E s \in DOMAIN session :
        \/ \E body \in Step1Requests : PostStep1(s, body)
        \/ GetStep2(s)
        \/ \E body \in Step2Bodies : PostStep2(s, body)
        \/ GetStep3(s)
        \/ \E body \in Step3Bodies : PostStep3(s, body)

SpecRegistration == InitRegistration /\ [][NextRegistration]_vars

(***************************************************************************)
(* What a consent list says, stated without the code's loops               *)
(***************************************************************************)
\* the attribute records of purpose p in a list: top-level ones and the
\* elements of attributes collections (objects too when withObjects)
RecordsOf(consents, p, withObjects) ==
    { [attributeId |-> consents[i].attributeId,
       attributeName |-> consents[i].attributeName,
       state |-> consents[i].state] :
         i \in {k \in 1..Len(consents) :
                  consents[k].purposeId = p /\ consents[k].attributeId # None} }
    \cup
    UNION { { [attributeId |-> Or(consents[i].attributes[j].attributeId,
                                  consents[i].attributes[j].id),
               attributeName |-> Or(Or(consents[i].attributes[j].attributeName,
                                       consents[i].attributes[j].label),
                                    consents[i].attributes[j].name),
               state |-> consents[i].attributes[j].state] :
                 j \in 1..Len(consents[i].attributes) } :
            i \in {k \in 1..Len(consents) :
                     /\ consents[k].purposeId = p
                     /\ consents[k].attributeId = None
                     /\ (withObjects \/ consents[k].attrsIsArray)} }

\* some record of purpose p resolves to attribute a with state granted (1)
GrantedFor(consents, p, a) ==
    \E r \in RecordsOf(consents, p, FALSE) :
        /\ r.state = 1
        /\ gateFindLogicalId(p, r.attributeId, r.attributeName) = a

\* the API returned at least one consent entry for purpose p
HasEntryFor(consents, p) == \E i \in 1..Len(consents) : consents[i].purposeId = p

\* C1 as stated: for every required set (the empty one included) and every
\* list the API returns, hasRequiredConsents is true iff every required
\* attribute has a record resolving to it with state granted.
C1_AsStated ==
    (call.fn = "hasRequiredConsents" /\ call.api.ok)
        => (call.result <=>
              \A r \in Range(call.required) :
                  GrantedFor(call.api.consents, call.purposeId, r))

\* C1 amended: hasRequiredConsents is true iff the API returned at least one
\* consent entry for the purpose and every required attribute has a record
\* resolving to it with state granted.
C1_Gate ==
    (call.fn = "hasRequiredConsents" /\ call.api.ok)
        => (call.result <=>
              /\ HasEntryFor(call.api.consents, call.purposeId)
              /\ \A r \in Range(call.required) :
                    GrantedFor(call.api.consents, call.purposeId, r))

C1_Witness ==
    /\ call.fn = "hasRequiredConsents"
    /\ call.api.ok
    /\ call.required = RequiredITR
    /\ call.result = TRUE

\* position of x in a list without repetitions
PosIn(seq, x) == CHOOSE i \in 1..Len(seq) : seq[i] = x

\* C2: when the gate is not true, getMissingRequiredConsents returns exactly
\* the required attributes that have no granted record, in the order of the
\* required list and each once.
C2_MissingExact ==
    (call.fn = "getMissingRequiredConsents" /\ call.api.ok /\ ~call.gate)
        => /\ Range(call.result) =
                 { r \in Range(call.required) :
                     ~GrantedFor(call.api.consents, call.purposeId, r) }
           /\ \A i, j \in 1..Len(call.result) :
                 i < j => PosIn(call.required, call.result[i])
                            < PosIn(call.required, call.result[j])

C2_Witness ==
    /\ call.fn = "getMissingRequiredConsents"
    /\ call.api.ok
    /\ ~call.gate
    /\ call.result # <<>>
    /\ Len(call.result) < Len(call.required)

\* the label equals, ignoring case, the label of a logical attribute of p
LabelIsExact(p, attrName) ==
    \E a \in Range(getConsentMetadata(p).attributes) :
        toLowerCase(a.label) = toLowerCase(attrName)

Keywords == {K_email, K_mobile, K_name, K_pan, K_aadhaar, K_aadhar}

\* the label matches one of the resolver's rules: equal to a logical label
\* ignoring case and surrounding white space, a substring of a logical label
\* or the reverse (the blank label is a substring of every label), or
\* containing one of the keywords
LabelMatchesRule(p, attrName) ==
    LET l == trim(toLowerCase(attrName))
    IN  \/ \E a \in Range(getConsentMetadata(p).attributes) :
              \/ toLowerCase(a.label) = l
              \/ includes(toLowerCase(a.label), l)
              \/ includes(l, toLowerCase(a.label))
        \/ \E k \in Keywords : includes(l, k)

\* a granted record of purpose p that is mapped: its id is a itself, or its
\* id is no logical id of p and its label satisfies Mapped
SupportedBy(consents, p, a, Mapped(_, _)) ==
    \E r \in RecordsOf(consents, p, TRUE) :
        /\ r.state = 1
        /\ \/ r.attributeId = a
           \/ /\ r.attributeId \notin LogicalIds(p)
              /\ r.attributeName # None
              /\ Mapped(p, r.attributeName)

\* every logical attribute the gate or the consent state reports as granted
\* is supported by a mapped record
NoFalseGrant(Mapped(_, _)) ==
    /\ (call.fn = "hasRequiredConsents" /\ call.api.ok /\ call.result
          /\ call.required # <<>>)
         => \A a \in Range(call.required) \cap LogicalIds(call.purposeId) :
               SupportedBy(call.api.consents, call.purposeId, a, Mapped)
    /\ (call.fn = "_buildConsentState")
         => \A p \in Purposes : \A a \in LogicalIds(p) :
               isGranted(call.result, p, a)
                  => SupportedBy(call.consents, p, a, Mapped)

\* C4 as stated: a record whose id is no logical id and whose label is not,
\* ignoring case, the label of a logical attribute never makes the gate or
\* the consent state report a logical attribute as granted.
C4_AsStated == NoFalseGrant(LabelIsExact)

\* C4 amended: a record whose id is no logical id and whose label is absent
\* or matches none of the resolver's rules never makes the gate or the
\* consent state report a logical attribute as granted.
C4_NoFalseGrant == NoFalseGrant(LabelMatchesRule)

\* a granted record with a tenant id and a label that matches no rule is
\* the whole list, and no logical attribute is reported as granted
C4_Witness ==
    /\ call.fn = "_buildConsentState"
    /\ call.consents = << Flat(ITR, T9, N_Phone, 1) >>
    /\ \A p \in Purposes : \A a \in LogicalIds(p) : ~isGranted(call.result, p, a)

\* the writes of a list as (entry index, write index) positions
WritePositions(consents, p, a) ==
    { <<i, j>> \in (1..Len(consents)) \X (1..5) :
        /\ consents[i].purposeId = p
        /\ j <= Len(entryWrites(consents[i]))
        /\ entryWrites(consents[i])[j].logical = a }

Later(x, y) == x[1] > y[1] \/ (x[1] = y[1] /\ x[2] >= y[2])

\* the value of the last record of the list that resolves to (p, a)
LastValue(consents, p, a) ==
    LET ps == WritePositions(consents, p, a)
        l  == CHOOSE x \in ps : \A y \in ps : Later(x, y)
    IN  entryWrites(consents[l[1]])[l[2]].value

\* C5 as stated: for a non-empty list, every record whose attributeId is a
\* logical id of its purpose has that id marked true iff the record's own
\* state is granted, also with several records for the same attribute.
C5_AsStated ==
    (call.fn = "_buildConsentState" /\ Len(call.consents) > 0)
        => \A p \in Purposes : \A r \in RecordsOf(call.consents, p, TRUE) :
              r.attributeId \in LogicalIds(p)
                 => (isGranted(call.result, p, r.attributeId) <=> r.state = 1)

\* C5 amended: for a non-empty list, every record whose attributeId is a
\* logical id of its purpose has that id marked true iff the last record of
\* the list that resolves to that id under that purpose has state granted.
C5_LastWins ==
    (call.fn = "_buildConsentState" /\ Len(call.consents) > 0)
        => \A p \in Purposes : \A r \in RecordsOf(call.consents, p, TRUE) :
              r.attributeId \in LogicalIds(p)
                 => (isGranted(call.result, p, r.attributeId)
                       <=> LastValue(call.consents, p, r.attributeId))

\* two records for (ITR_FILING, name), the granted one first
C5_Witness ==
    /\ call.fn = "_buildConsentState"
    /\ call.consents = << Flat(ITR, ID_name, None, 1), Flat(ITR, ID_name, None, 2) >>
    /\ ~isGranted(call.result, ITR, ID_name)

(***************************************************************************)
(* Properties of the web application                                       *)
(***************************************************************************)
\* the latest response answers a request on the route
Answered(route) == last.kind # "none" /\ last.route = route

\* C3 as stated: the ITR success page is shown to a session only after an
\* assess request of that session found all five required attributes
\* granted, and never while a required consent is missing.
C3_AsStated ==
    (Answered("GET /itr/success") /\ last.target = "itr-success")
        => /\ hist[last.sid].assessPassed
           /\ \A a \in Range(RequiredITR) : GrantedFor(store, ITR, a)

\* C6: an assess request whose consent fetch failed is answered with the
\* blocked page (403), never with the redirect to the success page; it makes
\* one call per function and no more; and when the fetch of
\* getMissingRequiredConsents failed the missing list is all five required
\* attributes.
C6_FailClosed ==
    (Answered("POST /itr/assess") /\ last.loggedIn)
        => /\ ~last.detail.gateOk
                => /\ last.target = "itr-blocked"
                   /\ last.status = 403
                   /\ last.apiCalls = 2
           /\ (last.target = "itr-blocked" /\ ~last.detail.missingOk)
                => last.detail.missingConsents = RequiredITR

\* the privacy system holds all five consents, both fetches failed
C6_Witness ==
    /\ Answered("POST /itr/assess")
    /\ last.target = "itr-blocked"
    /\ ~last.detail.gateOk
    /\ ~last.detail.missingOk
    /\ last.detail.missingConsents = RequiredITR
    /\ store = FiveFlatGranted

GatedRoutes ==
    { "POST /itr/assess", "GET /itr/success", "GET /itr/blocked",
      "GET /consent/management", "GET /consent/state", "POST /consent/update" }

\* C7: a request on a route under /itr or /consent whose session holds no
\* token set is redirected to /login; its handler is not entered, no privacy
\* API call is made and the stored consents stay as they are.
C7_Unauthenticated ==
    [][ (last'.kind # "none" /\ last'.route \in GatedRoutes /\ ~last'.loggedIn)
          => /\ last'.kind = "redirect"
             /\ last'.target = "/login"
             /\ ~last'.handlerRan
             /\ last'.apiCalls = 0
             /\ store' = store ]_vars

C7_Witness ==
    /\ Answered("POST /consent/update")
    /\ ~last.loggedIn
    /\ last.target = "/login"
    /\ ~isLoggedIn(session[last.sid])

\* C8 as stated: after a consent update for a (purpose, logical attribute)
\* pair was stored successfully, the consent state built from the consents
\* as they are then maps that pair to granted iff the update asked for
\* grant, and every other pair as before the update.
C8_AsStated ==
    [][ (/\ last'.kind # "none"
         /\ last'.route = "POST /consent/update"
         /\ last'.status = 200
         /\ last'.detail.purposeId \in Purposes
         /\ last'.detail.attributeId \in LogicalIds(last'.detail.purposeId))
          => \A p \in Purposes : \A a \in LogicalIds(p) :
                IF p = last'.detail.purposeId /\ a = last'.detail.attributeId
                THEN isGranted(buildConsentState(store'), p, a)
                        <=> (last'.detail.state = 1)
                ELSE isGranted(buildConsentState(store'), p, a)
                        <=> isGranted(buildConsentState(store), p, a) ]_vars

\* C9 as stated: a POST of step 3 whose session has not completed step 2 is
\* redirected to step 2, and registration completes (redirect to
\* /login?registered=true) only when step 1 and step 2 were both submitted
\* successfully in the session.
C9_AsStated ==
    Answered("POST /register/step3")
        => /\ (last.detail.step1Done /\ ~last.detail.step2Done)
                => last.target = "/register/step2"
           /\ last.target = "/login?registered=true"
                => (last.detail.step1Done /\ last.detail.step2Done)

\* C10 as stated: when step 3 succeeds the three MARKETING_COMMUNICATIONS
\* records (per the marketing flags) and the five granted ITR_FILING records
\* are in the privacy system when the user is redirected to login.
C10_AsStated ==
    (Answered("POST /register/step3") /\ last.target = "/login?registered=true")
        => \A i \in 1..Len(last.detail.consents) :
              \E j \in 1..Len(store) :
                  /\ store[j].purposeId = last.detail.consents[i].purposeId
                  /\ store[j].attributeId = last.detail.consents[i].attributeId
                  /\ store[j].state = last.detail.consents[i].state

\* C11: registration step 3 completes (redirect to /login?registered=true)
\* only when aadhaarConsent and panConsent are both 'on'; a POST of step 3
\* without one of them never redirects to login and leaves the session as it
\* was, and in a session holding an in-progress user record it is answered
\* with status 400 and the step 3 form.
C11_ConsentRequired ==
    [][ (last'.kind # "none" /\ last'.route = "POST /register/step3")
          => /\ last'.target = "/login?registered=true"
                  => /\ last'.detail.body.aadhaarConsent = "on"
                     /\ last'.detail.body.panConsent = "on"
             /\ (last'.detail.body.aadhaarConsent # "on"
                    \/ last'.detail.body.panConsent # "on")
                  => /\ session' = session
                     /\ last'.target # "/login?registered=true"
                     /\ session[last'.sid].tempUser.present
                          => /\ last'.status = 400
                             /\ last'.kind = "render"
                             /\ last'.target = "register-step3" ]_vars

\* step 3 posted without panConsent after steps 1 and 2: answered 400, the
\* record with the Aadhaar and PAN of step 2 is still in the session
C11_Witness ==
    /\ Answered("POST /register/step3")
    /\ last.detail.body.panConsent # "on"
    /\ last.status = 400
    /\ last.detail.step2Done
    /\ session[last.sid].tempUser.present
    /\ session[last.sid].tempUser.aadhaar # None

\* C12: a logout request by a logged-in session leaves the session without
\* token set and without in-progress user record, and from then on every
\* request of the session arriving on a gated route is redirected to /login
\* by the middleware, until a token exchange in the callback succeeds for
\* the session again.
C12_LogoutDestroys ==
    [][ /\ (last' # last /\ last'.route = "GET /logout" /\ last'.loggedIn)
              => /\ session'[last'.sid].authToken = NoToken
                 /\ ~session'[last'.sid].tempUser.present
                 /\ ~hist'[last'.sid].exchanged
        /\ (/\ last' # last
            /\ last'.route \in GatedRoutes
            /\ pc[last'.sid].at = "idle"
            /\ ~hist[last'.sid].exchanged)
              => /\ last'.kind = "redirect"
                 /\ last'.target = "/login"
                 /\ ~last'.handlerRan ]_vars

\* a logged-in session has logged out and holds nothing
C12_Witness ==
    /\ Answered("GET /logout")
    /\ last.loggedIn
    /\ last.target = "verifyLogout"
    /\ session[last.sid] = InitSession
    /\ ~hist[last.sid].exchanged

ExternalCallFailed ==
    \/ Answered("GET /login") /\ ~last.detail.discoveryOk
    \/ Answered("GET /auth/callback") /\ last.detail.client /\ ~last.detail.exchangeOk
    \/ /\ Answered("POST /itr/assess")
       /\ last.handlerRan
       /\ \/ ~last.detail.gateOk
          \/ last.target = "itr-blocked" /\ ~last.detail.missingOk
    \/ Answered("GET /consent/management") /\ last.handlerRan /\ last.detail.apiError
    \/ Answered("GET /consent/state") /\ last.handlerRan /\ last.detail.warning
    \/ /\ Answered("POST /consent/update")
       /\ last.apiCalls = 2
       /\ ~last.detail.success

\* C14 as stated: every request whose external call fails is answered, with
\* an error or a degraded response; none is left without a response.
C14_AsStated ==
    ExternalCallFailed
        => /\ last.kind \in {"redirect", "render", "json", "send"}
           /\ last.status \in {200, 302, 403, 500}

\* C15 as stated: what a request gets depends only on the request, its own
\* session and the external systems, never on the requests of other
\* sessions handled before.  For the callback: with the identity provider
\* accepting the code, the session is logged in exactly when a login request
\* of that same session went before.
C15_AsStated ==
    (Answered("GET /auth/callback") /\ last.detail.exchangeOk)
        => (last.status = 302 <=> hist[last.sid].authorized)

(***************************************************************************)
(* Attribute resolution as an ordered list of rules                        *)
(***************************************************************************)
\* the id of the first logical attribute of purpose p satisfying P, or None
FirstAttr(p, P(_)) ==
    LET A == getConsentMetadata(p).attributes
        I == {i \in 1..Len(A) : P(A[i])}
    IN  IF I = {} THEN None ELSE A[CHOOSE i \in I : \A j \in I : i <= j].id

\* the rules (a) to (d) for a record of purpose p, in their order: whether
\* the rule matches the record and what it resolves the record to
ResolutionRules(p, attrId, attrName) ==
    LET known == ~getConsentMetadata(p).isNull /\ attrName # None
        l     == IF attrName = None THEN <<>> ELSE trim(toLowerCase(attrName))
        exact == FirstAttr(p, LAMBDA a : toLowerCase(a.label) = l)
        sub   == FirstAttr(p, LAMBDA a : includes(toLowerCase(a.label), l)
                                            \/ includes(l, toLowerCase(a.label)))
    IN  << [matches |-> attrId # None /\ attrId \in LogicalIds(p), result |-> attrId],
           [matches |-> known /\ exact # None, result |-> exact],
           [matches |-> known /\ sub # None,   result |-> sub],
           [matches |-> known /\ includes(l, K_email),  result |-> ID_email],
           [matches |-> known /\ includes(l, K_mobile), result |-> ID_mobile_number],
           [matches |-> known /\ includes(l, K_name),   result |-> ID_name],
           [matches |-> known /\ includes(l, K_pan),    result |-> ID_pan_id],
           [matches |-> known /\ (includes(l, K_aadhaar) \/ includes(l, K_aadhar)),
            result |-> ID_aadhar_id] >>

\* the result of the first rule that matches, the raw attribute id if none
FirstMatch(p, attrId, attrName) ==
    LET R == ResolutionRules(p, attrId, attrName)
        M == {i \in 1..Len(R) : R[i].matches}
    IN  IF M = {} THEN attrId ELSE R[CHOOSE i \in M : \A j \in M : i <= j].result

\* the purposes of the entries of a list
PurposesOf(consents) == {consents[i].purposeId : i \in 1..Len(consents)}

\* the three resolvers resolve every record of the list the consent state
\* was built from as Expected does
ResolveAs(Expected(_, _, _)) ==
    call.fn = "_buildConsentState" =>
    \A p \in PurposesOf(call.consents) : \A r \in RecordsOf(call.consents, p, TRUE) :
        /\ findLogicalId(p, r.attributeId, r.attributeName)
              = Expected(p, r.attributeId, r.attributeName)
        /\ gateFindLogicalId(p, r.attributeId, r.attributeName)
              = FirstMatch(p, r.attributeId, r.attributeName)
        /\ missingFindLogicalId(p, r.attributeId, r.attributeName)
              = FirstMatch(p, r.attributeId, r.attributeName)

FirstMatchOrLabel(p, attrId, attrName) ==
    IF getConsentMetadata(p).isNull /\ attrId = None /\ attrName # None
    THEN replaceSpaces(toLowerCase(attrName))
    ELSE FirstMatch(p, attrId, attrName)

PageAgreesWithGate(consents) ==
    hasAllRequired(buildConsentState(consents), ITR, RequiredITR)
        <=> hasRequiredConsents(ApiOk(consents), ITR, RequiredITR)

\* C17 as stated: for every list the privacy API can return, the consent
\* page and the ITR gate agree on whether all five required attributes are
\* granted, and every record resolves to the same logical attribute in the
\* consent controller's resolver and in the privacy service's two.
C17_AsStated ==
    call.fn = "_buildConsentState"
        => /\ PageAgreesWithGate(call.consents)
           /\ \A p \in PurposesOf(call.consents) :
                \A r \in RecordsOf(call.consents, p, TRUE) :
                  /\ findLogicalId(p, r.attributeId, r.attributeName)
                        = gateFindLogicalId(p, r.attributeId, r.attributeName)
                  /\ findLogicalId(p, r.attributeId, r.attributeName)
                        = missingFindLogicalId(p, r.attributeId, r.attributeName)

\* C18 as stated: the blocked page of an assess request lists at least one
\* missing consent, as the gate decision that blocked the request implies,
\* whatever happens to the consents between the two fetches.
C18_AsStated ==
    (Answered("POST /itr/assess") /\ last.target = "itr-blocked")
        => last.detail.missingConsents # <<>>

\* C19: a session is logged in only if a token exchange of the callback
\* succeeded for it since it was created or last logged out, and the token
\* set of a session changes only in the step of a callback or a logout
\* request of that session.
C19_TokenOnlyFromCallback ==
    [][ \A s \in DOMAIN session :
          /\ isLoggedIn(session'[s]) => hist'[s].exchanged
          /\ session'[s].authToken # session[s].authToken
               => /\ last'.sid = s
                  /\ last'.route \in {"GET /auth/callback", "GET /logout"} ]_vars

\* a logged-in session has gone through registration and consent requests
C19_Witness ==
    /\ isLoggedIn(session["s1"])
    /\ hist["s1"].exchanged
    /\ hist["s1"].step1Done
    /\ Answered("POST /consent/update")
    /\ last.status = 200

\* C20 as stated: a callback logs the session in only if the state parameter
\* it carries is the state value a preceding login request of the same
\* session issued.
C20_AsStated ==
    (Answered("GET /auth/callback") /\ last.status = 302)
        => /\ hist[last.sid].authorized
           /\ last.detail.state = uuid(last.sid)

\* C21: a POST /consent/update that reached its handler answers success
\* (200, success true) only if storeConsents was called and returned status
\* 'success'; with purposeId or attributeId missing it answers 400 and makes
\* no external call, and when the call threw or returned another status it
\* answers 500.
C21_SuccessOnlyIfStored ==
    (Answered("POST /consent/update") /\ last.handlerRan /\ last.loggedIn)
        => LET d == last.detail
               missingFields == d.body.purposeId = "" \/ d.body.attributeId = None
           IN  /\ (last.status = 200) = d.success
               /\ missingFields => last.status = 400 /\ last.apiCalls = 0
               /\ ~missingFields
                    => /\ d.success <=> (d.storeCalled /\ ~d.threw
                                            /\ d.storeStatus = "success")
                       /\ ~d.success => last.status = 500

\* storeConsents was called and answered a status other than 'success'
C21_Witness ==
    /\ Answered("POST /consent/update")
    /\ last.status = 500
    /\ last.apiCalls = 2
    /\ ~last.detail.threw
    /\ last.detail.storeStatus = "fail"

\* the records the privacy system holds for a purpose and attribute
StoredFor(purposeId, attributeId) ==
    { i \in 1..Len(store) : /\ store[i].purposeId = purposeId
                            /\ store[i].attributeId = attributeId }

\* the request's state is the boolean true or the number 1
IsGrantValue(state) ==
    \/ state.t = "boolean" /\ state.v = "true"
    \/ state.t = "number" /\ state.v = "1"

\* C22: after a POST /consent/update that stored a consent, the privacy
\* system holds a record for the request's purpose and attribute; the
\* state of each such record is 1 if the request's state is the boolean true or the number 1
\* and 2 for every other value, and the answer reports the same state.
C22_GrantIffTrueOrOne ==
    (Answered("POST /consent/update") /\ last.status = 200)
        => LET d == last.detail
               want == IF IsGrantValue(d.body.state) THEN 1 ELSE 2
           IN  /\ d.state = want
               /\ StoredFor(d.body.purposeId, d.body.attributeId) # {}
               /\ \A i \in StoredFor(d.body.purposeId, d.body.attributeId) :
                      store[i].state = want

\* the string '1' was sent as the state, and a denial was stored
C22_Witness ==
    /\ Answered("POST /consent/update")
    /\ last.status = 200
    /\ last.detail.body.state = JsStr("1")
    /\ \E i \in StoredFor(last.detail.body.purposeId, last.detail.body.attributeId) :
           store[i].state = 2

\* the metadata answer lists the attribute for the purpose
ListedIn(metaResp, attributeId) ==
    \E i \in 1..Len(metaResp.attrIds) : metaResp.attrIds[i] = attributeId

\* C23: when the fetched metadata contains the purpose and does not list the
\* attribute, updateConsent fails with ATTRIBUTE_NOT_IN_PURPOSE without
\* calling storeConsents and the privacy system's list is unchanged; when the
\* metadata fetch failed or does not contain the purpose, storeConsents is
\* called.
C23_UnlistedAttributeNotStored ==
    call.fn = "updateConsent"
        => LET m == call.metaResp
               r == call.result
           IN  /\ (m.ok /\ m.hasPurpose /\ ~ListedIn(m, call.attributeId))
                    => /\ r.threw
                       /\ r.code = "ATTRIBUTE_NOT_IN_PURPOSE"
                       /\ ~r.storeCalled
                       /\ store = call.consents
               /\ (~m.ok \/ ~m.hasPurpose) => r.storeCalled

\* the metadata lists the ITR attributes and the attribute is not one of
\* them, while the store call would have succeeded
C23_Witness ==
    /\ call.fn = "updateConsent"
    /\ call.metaResp.ok /\ call.metaResp.hasPurpose
    /\ ~ListedIn(call.metaResp, call.attributeId)
    /\ call.outcome = "success"
    /\ call.result.code = "ATTRIBUTE_NOT_IN_PURPOSE"

\* the field is text (not missing, not a number)
IsText(v) == v # None /\ v[1] # "number"

\* the five checks of step 1: a name of at least 2 characters (white space
\* at its ends aside), a valid email address, a mobile number of 10 digits,
\* a password of at least 8 characters, and the password repeated
AllFiveChecksPass(body) ==
    /\ IsText(body.fullName) /\ Len(trim(body.fullName)) >= 2
    /\ IsText(body.email) /\ validateEmail(body.email)
    /\ IsText(body.mobile) /\ Len(digitsOf(body.mobile)) = 10
    /\ IsText(body.password) /\ Len(body.password) >= 8
    /\ body.password = body.confirmPassword

\* C24 as stated: POST /register/step1 puts the in-progress user record in
\* the session (with each marketing flag true exactly when its check box was
\* submitted as 'on') and redirects to step 2 if all five checks pass;
\* otherwise it answers 400 and leaves the in-progress user record as it was.
C24_AsStated ==
    [][ (last' # last /\ last'.route = "POST /register/step1")
          => LET body == last'.detail.body
                 u    == session'[last'.sid].tempUser
             IN  IF AllFiveChecksPass(body)
                 THEN /\ last'.kind = "redirect"
                      /\ last'.target = "/register/step2"
                      /\ u.present
                      /\ u.fullName = body.fullName /\ u.email = body.email
                      /\ u.mobile = body.mobile /\ u.password = body.password
                      /\ u.marketingConsents.name = (body.marketingName = "on")
                      /\ u.marketingConsents.email = (body.marketingEmail = "on")
                      /\ u.marketingConsents.mobile = (body.marketingMobile = "on")
                 ELSE /\ last'.status = 400
                      /\ u = session[last'.sid].tempUser ]_vars

\* eight asterisks followed by four digits
IsMaskedAadhaar(v) ==
    /\ Len(v) = 12
    /\ \A k \in 1..8 : v[k] = "*"
    /\ \A k \in 9..12 : v[k] \in Digits

\* five characters, four asterisks and one character
IsMaskedPAN(v) ==
    /\ Len(v) = 10
    /\ \A k \in 6..9 : v[k] = "*"
    /\ \A k \in (1..5) \cup {10} : v[k] # "*"

\* C25 as stated: whatever the session's in-progress user record holds of
\* the Aadhaar is eight asterisks followed by the last four digits, and
\* whatever it holds of the PAN is its first five characters, four asterisks
\* and its last character.
C25_AsStated ==
    \A s \in DOMAIN session :
        session[s].tempUser.present
            => LET u == session[s].tempUser
               IN  /\ \A f \in {"aadhaar", "aadhaarFull"} :
                          u[f] = None \/ IsMaskedAadhaar(u[f])
                   /\ \A f \in {"pan", "panFull"} :
                          u[f] = None \/ IsMaskedPAN(u[f])

====
